---- MODULE Spec2Model ----
(***************************************************************************)
(* Mortgage calculator (rcuevass/Demo-streamlit-101): the input validator, *)
(* the MortgageInputs constructor, the amortization engine and the main()  *)
(* flow that composes them.                                                *)
(*                                                                         *)
(* Python floats are modelled as binary floating-point numbers             *)
(*   [m |-> mantissa, e |-> exponent]   with value  m * 2^e,               *)
(* a signed mantissa of exactly Prec bits (or m = 0), and every operation  *)
(* rounded to nearest, ties to even, as IEEE 754 does.  Prec is 24 (single *)
(* precision) where Python has 53: the arithmetic below works in 31-bit    *)
(* integers.  The exponent is unbounded except where Python itself raises  *)
(* (float ** int); infinities, NaN and subnormal numbers are not modelled. *)
(***************************************************************************)
EXTENDS Integers, Sequences, FiniteSets, TLC

\* Mantissa width of the modelled floating-point format.
Prec == 24

\* float ** int raises OverflowError when the result reaches 2^DBL_MAX_EXP.
DBL_MAX_EXP == 1024

\* config.py
MONTHS_PER_YEAR == 12
PERCENTAGE_DIVISOR == 100
MIN_HOME_VALUE == 0
MIN_DEPOSIT == 0
MIN_INTEREST_RATE == 0
MIN_LOAN_TERM == 1

-----------------------------------------------------------------------------
(* Floating-point arithmetic *)

Abs(x) == IF x < 0 THEN -x ELSE x

Sign(x) == IF x < 0 THEN -1 ELSE IF x > 0 THEN 1 ELSE 0

RECURSIVE BitLen(_)
BitLen(x) == IF x < 2 THEN x ELSE 1 + BitLen(x \div 2)

Zero == [m |-> 0, e |-> 0]

\* The float with a p-bit mantissa nearest to sg * (a + f) * 2^e, where a > 0
\* and the sticky flag st says whether 0 < f < 1 (else f = 0): round to
\* nearest, ties to even.  With st set, a has more than p bits.
Round(p, sg, a, st, e) ==
    LET L == BitLen(a)
    IN  IF L <= p
        THEN [m |-> sg * a * 2^(p - L), e |-> e - (p - L)]
        ELSE LET s    == L - p
                 q    == a \div 2^s
                 rem  == a % 2^s
                 half == 2^(s - 1)
                 up   == rem > half \/ (rem = half /\ (st \/ q % 2 = 1))
                 q1   == IF up THEN q + 1 ELSE q
             IN  IF q1 = 2^p
                 THEN [m |-> sg * 2^(p - 1), e |-> e + s + 1]
                 ELSE [m |-> sg * q1, e |-> e + s]

\* float(k) for a Python int k
FromInt(k) == IF k = 0 THEN Zero ELSE Round(Prec, Sign(k), Abs(k), FALSE, 0)

FNeg(x) == [m |-> -x.m, e |-> x.e]

FAbs(x) == [m |-> Abs(x.m), e |-> x.e]

\* x + y.  The operand of smaller exponent is aligned to three guard bits
\* below the other's last place, the bits shifted out kept as a sticky flag.
FAdd(x, y) ==
    IF x.m = 0 THEN y
    ELSE IF y.m = 0 THEN x
    ELSE LET hi  == IF x.e >= y.e THEN x ELSE y
             lo  == IF x.e >= y.e THEN y ELSE x
             d   == hi.e - lo.e
             H   == Abs(hi.m) * 8
             sh  == d - 3
             Lo  == IF d <= 3 THEN Abs(lo.m) * 2^(3 - d)
                    ELSE IF sh <= Prec THEN Abs(lo.m) \div 2^sh
                    ELSE 0
             st  == IF d <= 3 THEN FALSE
                    ELSE IF sh <= Prec THEN Abs(lo.m) % 2^sh # 0
                    ELSE TRUE
             same == Sign(hi.m) = Sign(lo.m)
         IN  IF same THEN Round(Prec, Sign(hi.m), H + Lo, st, hi.e - 3)
             ELSE IF st THEN Round(Prec, Sign(hi.m), H - Lo - 1, TRUE, hi.e - 3)
             ELSE IF H = Lo THEN Zero
             ELSE Round(Prec, Sign(hi.m) * Sign(H - Lo), Abs(H - Lo), FALSE, hi.e - 3)

FSub(x, y) == FAdd(x, FNeg(y))

\* The product of two p-bit mantissas, rounded to p bits: the exact product
\* is top * 2^28 + low, of which the leading p + 1 bits and a sticky flag
\* are kept.
WMul(p, x, y) ==
    IF x.m = 0 \/ y.m = 0 THEN Zero
    ELSE LET a   == Abs(x.m)
             b   == Abs(y.m)
             a1  == a \div 16384
             a0  == a % 16384
             b1  == b \div 16384
             b0  == b % 16384
             mid == a1 * b0 + a0 * b1
             t   == (mid % 16384) * 16384 + a0 * b0
             top == a1 * b1 + mid \div 16384 + t \div 268435456
             low == t % 268435456
             s   == BitLen(top) + 28 - (p + 1)
             A   == top * 2^(28 - s) + low \div 2^s
             st  == low % 2^s # 0
         IN  Round(p, Sign(x.m) * Sign(y.m), A, st, x.e + y.e + s)

FMul(x, y) == WMul(Prec, x, y)

\* floor(r * 2^bits / b) appended to q, and whether a remainder is left,
\* taken a few bits at a time so that no intermediate exceeds 31 bits.
RECURSIVE DivBits(_, _, _, _)
DivBits(r, b, q, bits) ==
    IF bits = 0 THEN [q |-> q, st |-> r # 0]
    ELSE LET c == IF bits < 30 - Prec THEN bits ELSE 30 - Prec
         IN  DivBits((r * 2^c) % b, b, q * 2^c + (r * 2^c) \div b, bits - c)

\* x / y for y # 0: the quotient to Prec + 2 bits and a sticky flag, rounded.
FDiv(x, y) ==
    IF x.m = 0 THEN Zero
    ELSE LET a == Abs(x.m)
             b == Abs(y.m)
             d == DivBits(a % b, b, a \div b, Prec + 2)
         IN  Round(Prec, Sign(x.m) * Sign(y.m), d.q, d.st, x.e - y.e - (Prec + 2))

FLt(x, y) == FSub(x, y).m < 0
FLe(x, y) == FSub(x, y).m <= 0

\* Working precision of pow: libm's pow is accurate to about one unit in
\* the last place, which the extra bits give square-and-multiply.
PowPrec == Prec + 3

RECURSIVE PowWide(_, _)
PowWide(x, n) ==
    IF n = 1 THEN [m |-> x.m * 2^(PowPrec - Prec), e |-> x.e - (PowPrec - Prec)]
    ELSE LET h == PowWide(x, n \div 2)
             s == WMul(PowPrec, h, h)
         IN  IF n % 2 = 1
             THEN WMul(PowPrec, s, [m |-> x.m * 2^(PowPrec - Prec), e |-> x.e - (PowPrec - Prec)])
             ELSE s

\* x ** n for a float x > 0 and an int n >= 1
FPow(x, n) == LET w == PowWide(x, n) IN Round(Prec, 1, w.m, FALSE, w.e)

\* math.ceil of a float
Ceil(x) ==
    IF x.e >= 0 THEN x.m * 2^x.e
    ELSE IF -x.e > Prec THEN (IF x.m > 0 THEN 1 ELSE 0)
    ELSE LET d == 2^(-x.e)
             a == Abs(x.m)
         IN  IF x.m > 0 THEN (a + d - 1) \div d ELSE -(a \div d)

-----------------------------------------------------------------------------
(* Values *)

\* Python's None where the other values are strings
None == "None"

\* No object: a variable not assigned, no exception raised
Absent == [absent |-> TRUE]

One == FromInt(1)

\* The literal 0.01 of generate_payment_schedule
BALANCE_EPSILON == FDiv(FromInt(1), FromInt(100))

\* utils.py, validate_inputs: the largest loan term it accepts
MAX_VALIDATED_TERM == 50

-----------------------------------------------------------------------------
(* utils.py *)

\* validate_inputs without the upper limit on the loan term
validate_inputs_unlimited(home_value, deposit, interest_rate, loan_term) ==
    IF FLe(home_value, Zero) THEN "Home value must be greater than zero."
    ELSE IF FLt(deposit, Zero) THEN "Deposit cannot be negative."
    ELSE IF FLe(home_value, deposit) THEN "Deposit must be less than home value."
    ELSE IF FLt(interest_rate, Zero) THEN "Interest rate cannot be negative."
    ELSE IF loan_term < 1 THEN "Loan term must be at least 1 year."
    ELSE None

\* validate_inputs with the deposit compared by > where the code has >=
validate_inputs_strict(home_value, deposit, interest_rate, loan_term) ==
    IF FLe(home_value, Zero) THEN "Home value must be greater than zero."
    ELSE IF FLt(deposit, Zero) THEN "Deposit cannot be negative."
    ELSE IF FLt(home_value, deposit) THEN "Deposit must be less than home value."
    ELSE IF FLt(interest_rate, Zero) THEN "Interest rate cannot be negative."
    ELSE IF loan_term < 1 THEN "Loan term must be at least 1 year."
    ELSE IF loan_term > MAX_VALIDATED_TERM THEN "Loan term cannot exceed 50 years."
    ELSE None

validate_inputs(home_value, deposit, interest_rate, loan_term) ==
    IF FLe(home_value, Zero) THEN "Home value must be greater than zero."
    ELSE IF FLt(deposit, Zero) THEN "Deposit cannot be negative."
    ELSE IF FLe(home_value, deposit) THEN "Deposit must be less than home value."
    ELSE IF FLt(interest_rate, Zero) THEN "Interest rate cannot be negative."
    ELSE IF loan_term < 1 THEN "Loan term must be at least 1 year."
    ELSE IF loan_term > MAX_VALIDATED_TERM THEN "Loan term cannot exceed 50 years."
    ELSE None

\* The smallest of a set of floats
FMin(S) == CHOOSE b \in S : \A c \in S : FLe(b, c)

\* The values of the Year column
Years(es) == {es[k].year : k \in 1..Len(es)}

\* The Remaining Balance column of the rows of one year
BalancesOfYear(es, y) ==
    {es[k].remaining_balance : k \in {j \in 1..Len(es) : es[j].year = y}}

\* aggregate_by_year on the data frame of the schedule: the minimum remaining
\* balance of each year (the empty frame for an empty schedule)
aggregate_by_year(es) == [y \in Years(es) |-> FMin(BalancesOfYear(es, y))]

-----------------------------------------------------------------------------
(* models.py *)

\* __post_init__ without the comparison of the deposit with the home value
post_init_deposit_unchecked(home_value, deposit, interest_rate, loan_term_years) ==
    IF FLt(home_value, Zero) THEN "Home value must be non-negative"
    ELSE IF FLt(deposit, Zero) THEN "Deposit must be non-negative"
    ELSE IF FLt(interest_rate, Zero) THEN "Interest rate must be non-negative"
    ELSE IF loan_term_years < 1 THEN "Loan term must be at least 1 year"
    ELSE None

\* MortgageInputs.__post_init__: the message of the ValueError it raises,
\* or None when the instance is constructed.
MortgageInputs_post_init(home_value, deposit, interest_rate, loan_term_years) ==
    IF FLt(home_value, Zero) THEN "Home value must be non-negative"
    ELSE IF FLt(deposit, Zero) THEN "Deposit must be non-negative"
    ELSE IF FLt(home_value, deposit) THEN "Deposit cannot exceed home value"
    ELSE IF FLt(interest_rate, Zero) THEN "Interest rate must be non-negative"
    ELSE IF loan_term_years < 1 THEN "Loan term must be at least 1 year"
    ELSE None

MortgageInputs(home_value, deposit, interest_rate, loan_term_years) ==
    [home_value |-> home_value, deposit |-> deposit,
     interest_rate |-> interest_rate, loan_term_years |-> loan_term_years]

MortgageResults(loan_amount, monthly_payment, total_payments, total_interest, monthly_interest_rate, number_of_payments) ==
    [loan_amount |-> loan_amount, monthly_payment |-> monthly_payment,
     total_payments |-> total_payments, total_interest |-> total_interest,
     monthly_interest_rate |-> monthly_interest_rate,
     number_of_payments |-> number_of_payments]

PaymentScheduleEntry(month_, payment, principal, interest, remaining_balance_, year) ==
    [month |-> month_, payment |-> payment, principal |-> principal,
     interest |-> interest, remaining_balance |-> remaining_balance_, year |-> year]

-----------------------------------------------------------------------------
(* calculations.py *)

Raise(type, msg) == [raised |-> [type |-> type, msg |-> msg], value |-> Absent]

Return(value) == [raised |-> Absent, value |-> value]

\* The guard written loan_amount <= 1
LoanAmountAtMostOne(loan_amount) == FLe(loan_amount, One)

\* The guard written loan_amount < 0
LoanAmountNegative(loan_amount) == FLt(loan_amount, Zero)

\* The guard of calculate_mortgage on the loan amount
LoanAmountRejected(loan_amount) == FLe(loan_amount, Zero)

\* calculate_mortgage without the branch for a 0% interest rate
NeverZeroRate(monthly_interest_rate) == FALSE

\* The branch of calculate_mortgage for a 0% interest rate
IsZeroRate(monthly_interest_rate) == monthly_interest_rate = Zero

\* monthly_interest_rate = (interest_rate / PERCENTAGE_DIVISOR) / MONTHS_PER_YEAR
MonthlyInterestRate(interest_rate) ==
    FDiv(FDiv(interest_rate, FromInt(PERCENTAGE_DIVISOR)), FromInt(MONTHS_PER_YEAR))

\* (1 + monthly_interest_rate) ** number_of_payments raises OverflowError
PowOverflows(power_term) == power_term.e + Prec > DBL_MAX_EXP

\* loan_amount * (monthly_interest_rate * power_term) / (power_term - 1)
AnnuityPayment(loan_amount, monthly_interest_rate, power_term) ==
    FDiv(FMul(loan_amount, FMul(monthly_interest_rate, power_term)),
         FSub(power_term, One))

\* total_payments, total_interest and the MortgageResults returned
WithTotals(loan_amount, monthly_payment, total_payments, monthly_interest_rate, number_of_payments) ==
    Return(MortgageResults(loan_amount, monthly_payment, total_payments,
                           FSub(total_payments, loan_amount),
                           monthly_interest_rate, number_of_payments))

ReturnResults(loan_amount, monthly_payment, monthly_interest_rate, number_of_payments) ==
    WithTotals(loan_amount, monthly_payment,
               FMul(monthly_payment, FromInt(number_of_payments)),
               monthly_interest_rate, number_of_payments)

\* The interest-bearing branch of the try block of calculate_mortgage
PaymentWithInterest(loan_amount, monthly_interest_rate, number_of_payments, power_term) ==
    IF PowOverflows(power_term)
    THEN Raise("OverflowError", "(34, 'Numerical result out of range')")
    ELSE IF FSub(power_term, One) = Zero
    THEN Raise("ZeroDivisionError",
               "Error in payment calculation. Check input values.")
    ELSE ReturnResults(loan_amount,
                       AnnuityPayment(loan_amount, monthly_interest_rate, power_term),
                       monthly_interest_rate, number_of_payments)

\* calculate_mortgage from the monthly payment on
CalculatePayment(loan_amount, monthly_interest_rate, number_of_payments) ==
    IF LoanAmountRejected(loan_amount)
    THEN Raise("ValueError",
               "Loan amount must be positive. Ensure home value is greater than deposit.")
    ELSE IF IsZeroRate(monthly_interest_rate)
    THEN ReturnResults(loan_amount,
                       FDiv(loan_amount, FromInt(number_of_payments)),
                       monthly_interest_rate, number_of_payments)
    ELSE PaymentWithInterest(loan_amount, monthly_interest_rate, number_of_payments,
                             FPow(FAdd(One, monthly_interest_rate),
                                  number_of_payments))

\* MortgageCalculator.calculate_mortgage: the exception raised or the
\* MortgageResults returned.
calculate_mortgage(inp) ==
    CalculatePayment(FSub(inp.home_value, inp.deposit),
                     MonthlyInterestRate(inp.interest_rate),
                     inp.loan_term_years * MONTHS_PER_YEAR)

\* generate_payment_schedule without its clamp
KeepBalance(balance) == balance

\* The clamp of generate_payment_schedule
ClampBalance(balance) == IF FLt(balance, BALANCE_EPSILON) THEN Zero ELSE balance

\* The loop running over range(1, number_of_payments)
LoopStopsEarly(month_, res) == month_ < res.number_of_payments

\* The loop of generate_payment_schedule runs while this holds
LoopContinues(month_, res) == month_ <= res.number_of_payments

\* The entry appended by an iteration, from the interest of the month
EntryFor(res, balance, month_, interest_payment, principal_payment) ==
    PaymentScheduleEntry(month_, res.monthly_payment, principal_payment,
                         interest_payment,
                         ClampBalance(FSub(balance, principal_payment)),
                         Ceil(FDiv(FromInt(month_), FromInt(MONTHS_PER_YEAR))))

EntryWithInterest(res, balance, month_, interest_payment) ==
    EntryFor(res, balance, month_, interest_payment,
             FSub(res.monthly_payment, interest_payment))

\* One iteration of the loop of generate_payment_schedule: the entry it
\* appends, whose remaining_balance is the balance it leaves.
ScheduleIteration(res, balance, month_) ==
    EntryWithInterest(res, balance, month_, FMul(balance, res.monthly_interest_rate))

-----------------------------------------------------------------------------
(* The inputs explored *)

\* 4.6875 % a year: a monthly rate of exactly 1/256
RATE_ORDINARY == FDiv(FromInt(75), FromInt(16))

\* 2^-50 % a year: 1 + monthly rate rounds to 1
RATE_TINY == [m |-> 2^(Prec - 1), e |-> -50 - (Prec - 1)]

\* 720 * 2^(1 - Prec) % a year: the monthly rate is 0.6 units in the last
\* place of 1, so that 1 + monthly rate rounds up to the float after 1
RATE_SMALL == [m |-> FromInt(720).m, e |-> FromInt(720).e - (Prec - 1)]

\* Rates so large that power_term - 1 rounds to power_term
RATE_HUGE == FromInt(2175)

RATE_EXTREME == FromInt(37200)

HomeValues == {FromInt(-1), Zero, One, FromInt(12)}

Deposits == {FromInt(-1), Zero, One, FromInt(12)}

Rates ==
    {FromInt(-1), Zero, RATE_ORDINARY, RATE_TINY, RATE_SMALL, RATE_HUGE, RATE_EXTREME}

Terms == {0, 1, 5, 50, 51}

LongTerms == {50, 51}

InputTuples ==
    {a \in [home_value : HomeValues, deposit : Deposits,
            interest_rate : Rates, loan_term : Terms] :
        /\ a.interest_rate = RATE_HUGE => a.loan_term = 5
        /\ a.loan_term \in LongTerms =>
               a.interest_rate \in {Zero, RATE_ORDINARY, RATE_EXTREME}}

\* What the number_input widgets of render_input_section let through
WidgetTuples ==
    {a \in InputTuples :
        /\ FLe(FromInt(MIN_HOME_VALUE), a.home_value)
        /\ FLe(FromInt(MIN_DEPOSIT), a.deposit)
        /\ FLe(FromInt(MIN_INTEREST_RATE), a.interest_rate)
        /\ MIN_LOAN_TERM <= a.loan_term}

\* MortgageResults built by hand and passed to generate_payment_schedule
DirectResults ==
    {MortgageResults(la, mp, Zero, Zero, r, n) :
        la \in {FromInt(-1), FromInt(12)},
        mp \in {FromInt(-1), Zero, One, FromInt(5)},
        r \in {Zero, FDiv(One, FromInt(256))},
        n \in {0, 12}}

NotCalled == "<not called>"

-----------------------------------------------------------------------------
(* State *)

VARIABLES
    caller,             \* "api": the library called directly; "main": main();
                        \* "schedule": generate_payment_schedule called directly
    args,               \* the raw values: home_value, deposit, interest_rate, loan_term
    pc,                 \* position of the caller
    inputs,             \* the MortgageInputs instance, or Absent
    validation_error,   \* what validate_inputs returned, or NotCalled
    results,            \* the MortgageResults, or Absent
    remaining_balance,  \* local of generate_payment_schedule
    month,              \* loop variable of generate_payment_schedule
    entries,            \* entries of the schedule
    raised,             \* the exception that left the library call, or Absent
    shown,              \* messages passed to ui.show_error
    rendered,           \* main() rendered the results
    chart               \* the data frame passed to st.line_chart, or Absent

vars == <<caller, args, pc, inputs, validation_error, results,
          remaining_balance, month, entries, raised, shown, rendered, chart>>

Init ==
    /\ caller \in {"api", "main", "schedule"}
    /\ args \in CASE caller = "api" -> InputTuples
                  [] caller = "main" -> WidgetTuples
                  [] OTHER -> {Absent}
    /\ results \in IF caller = "schedule" THEN DirectResults ELSE {Absent}
    /\ pc = IF caller = "schedule" THEN "calculated" ELSE "start"
    /\ inputs = Absent
    /\ validation_error = NotCalled
    /\ remaining_balance = Absent
    /\ month = 0
    /\ entries = <<>>
    /\ raised = Absent
    /\ shown = <<>>
    /\ rendered = FALSE
    /\ chart = Absent

-----------------------------------------------------------------------------
(* The library called directly *)

\* validate_inputs(home_value, deposit, interest_rate, loan_term)
ApiValidate ==
    /\ caller = "api" /\ pc = "start"
    /\ validation_error' = validate_inputs(args.home_value, args.deposit,
                                           args.interest_rate, args.loan_term)
    /\ pc' = "done"
    /\ UNCHANGED <<chart, caller, args, inputs, results, remaining_balance, month,
                   entries, raised, shown, rendered>>

\* MortgageInputs(home_value, deposit, interest_rate, loan_term_years)
ApiConstruct ==
    /\ caller = "api" /\ pc = "start"
    /\ \E err \in {MortgageInputs_post_init(args.home_value, args.deposit,
                                              args.interest_rate, args.loan_term)} :
           IF err # None
           THEN /\ raised' = [type |-> "ValueError", msg |-> err]
                /\ pc' = "done"
                /\ UNCHANGED inputs
           ELSE /\ inputs' = MortgageInputs(args.home_value, args.deposit,
                                            args.interest_rate, args.loan_term)
                /\ pc' = "constructed"
                /\ UNCHANGED raised
    /\ UNCHANGED <<chart, caller, args, validation_error, results, remaining_balance,
                   month, entries, shown, rendered>>

\* MortgageCalculator.calculate_mortgage(inputs)
ApiCalculateMortgage ==
    /\ caller = "api" /\ pc = "constructed"
    /\ \E r \in {calculate_mortgage(inputs)} :
           IF r.raised # Absent
           THEN /\ raised' = r.raised
                /\ pc' = "done"
                /\ UNCHANGED results
           ELSE /\ results' = r.value
                /\ pc' = "calculated"
                /\ UNCHANGED raised
    /\ UNCHANGED <<chart, caller, args, inputs, validation_error, remaining_balance,
                   month, entries, shown, rendered>>

\* generate_payment_schedule(inputs, results), up to the loop
GenerateScheduleBegin ==
    /\ caller \in {"api", "schedule"} /\ pc = "calculated"
    /\ entries' = <<>>
    /\ remaining_balance' = results.loan_amount
    /\ month' = 1
    /\ pc' = "loop"
    /\ UNCHANGED <<chart, caller, args, inputs, validation_error, results, raised,
                   shown, rendered>>

\* One iteration of the loop of generate_payment_schedule
ScheduleStep ==
    /\ pc = "loop" /\ LoopContinues(month, results)
    /\ \E entry \in {ScheduleIteration(results, remaining_balance, month)} :
           /\ entries' = Append(entries, entry)
           /\ remaining_balance' = entry.remaining_balance
    /\ month' = month + 1
    /\ UNCHANGED <<chart, caller, args, pc, inputs, validation_error, results, raised,
                   shown, rendered>>

\* generate_payment_schedule returns PaymentSchedule(entries)
ScheduleReturn ==
    /\ caller \in {"api", "schedule"}
    /\ pc = "loop" /\ ~LoopContinues(month, results)
    /\ pc' = "done"
    /\ UNCHANGED <<chart, caller, args, inputs, validation_error, results,
                   remaining_balance, month, entries, raised, shown, rendered>>

-----------------------------------------------------------------------------
(* main.py *)

\* render_input_section with a MortgageInputs that performs no check
MainRenderInputUnchecked ==
    /\ caller = "main" /\ pc = "start"
    /\ inputs' = MortgageInputs(args.home_value, args.deposit,
                                 args.interest_rate, args.loan_term)
    /\ pc' = "validate"
    /\ UNCHANGED <<chart, caller, args, validation_error, results, remaining_balance,
                   month, entries, raised, rendered, shown>>

\* inputs = ui.render_input_section(), and the ValueError handler of main()
MainRenderInput ==
    /\ caller = "main" /\ pc = "start"
    /\ \E err \in {MortgageInputs_post_init(args.home_value, args.deposit,
                                              args.interest_rate, args.loan_term)} :
           IF err # None
           THEN /\ shown' = Append(shown, "Invalid input: " \o err)
                /\ pc' = "done"
                /\ UNCHANGED inputs
           ELSE /\ inputs' = MortgageInputs(args.home_value, args.deposit,
                                            args.interest_rate, args.loan_term)
                /\ pc' = "validate"
                /\ UNCHANGED shown
    /\ UNCHANGED <<chart, caller, args, validation_error, results, remaining_balance,
                   month, entries, raised, rendered>>

\* main() showing the validation error but going on to the calculation
MainValidateContinue ==
    /\ caller = "main" /\ pc = "validate"
    /\ \E err \in {validate_inputs(inputs.home_value, inputs.deposit,
                                     inputs.interest_rate, inputs.loan_term_years)} :
           /\ validation_error' = err
           /\ pc' = "calculate"
           /\ IF err # None
              THEN shown' = Append(shown, err)
              ELSE UNCHANGED shown
    /\ UNCHANGED <<chart, caller, args, inputs, results, remaining_balance, month,
                   entries, raised, rendered>>

\* validation_error = validate_inputs(...); show it and return if there is one
MainValidate ==
    /\ caller = "main" /\ pc = "validate"
    /\ \E err \in {validate_inputs(inputs.home_value, inputs.deposit,
                                     inputs.interest_rate, inputs.loan_term_years)} :
           /\ validation_error' = err
           /\ IF err # None
              THEN /\ shown' = Append(shown, err)
                   /\ pc' = "done"
              ELSE /\ pc' = "calculate"
                   /\ UNCHANGED shown
    /\ UNCHANGED <<chart, caller, args, inputs, results, remaining_balance, month,
                   entries, raised, rendered>>

\* The message main() shows for an exception of the calculation
HandlerMessage(exc) ==
    CASE exc.type = "ValueError" -> "Invalid input: " \o exc.msg
      [] exc.type = "ZeroDivisionError" ->
             "Calculation error: Division by zero occurred"
      [] OTHER -> "An unexpected error occurred: " \o exc.msg

\* main() with handlers that show nothing for an exception of the calculation
MainCalculateAllSilent ==
    /\ caller = "main" /\ pc = "calculate"
    /\ \E r \in {calculate_mortgage(inputs)} :
           IF r.raised # Absent
           THEN /\ pc' = "done"
                /\ UNCHANGED <<results, entries, remaining_balance, month>>
           ELSE /\ results' = r.value
                /\ entries' = <<>>
                /\ remaining_balance' = r.value.loan_amount
                /\ month' = 1
                /\ pc' = "loop"
    /\ UNCHANGED <<chart, caller, args, inputs, validation_error, raised, rendered, shown>>

\* calculator.calculate_all(inputs), up to the loop of the schedule, and the
\* exception handlers of main()
MainCalculateAll ==
    /\ caller = "main" /\ pc = "calculate"
    /\ \E r \in {calculate_mortgage(inputs)} :
           IF r.raised # Absent
           THEN /\ shown' = Append(shown, HandlerMessage(r.raised))
                /\ pc' = "done"
                /\ UNCHANGED <<results, entries, remaining_balance, month>>
           ELSE /\ results' = r.value
                /\ entries' = <<>>
                /\ remaining_balance' = r.value.loan_amount
                /\ month' = 1
                /\ pc' = "loop"
                /\ UNCHANGED shown
    /\ UNCHANGED <<chart, caller, args, inputs, validation_error, raised, rendered>>

\* calculate_all returns; main() renders the metrics and the schedule
MainRender ==
    /\ caller = "main"
    /\ pc = "loop" /\ ~LoopContinues(month, results)
    /\ chart' = aggregate_by_year(entries)
    /\ rendered' = TRUE
    /\ pc' = "done"
    /\ UNCHANGED <<caller, args, inputs, validation_error, results,
                   remaining_balance, month, entries, raised, shown>>

-----------------------------------------------------------------------------

Next ==
    \/ ApiValidate
    \/ ApiConstruct
    \/ ApiCalculateMortgage
    \/ GenerateScheduleBegin
    \/ ScheduleStep
    \/ ScheduleReturn
    \/ MainRenderInput
    \/ MainValidate
    \/ MainCalculateAll
    \/ MainRender

Spec == Init /\ [][Next]_vars

-----------------------------------------------------------------------------
(* Properties *)

Positive(x) == x.m > 0

Negative(x) == x.m < 0

\* The inputs the validator is specified to accept
ValidInput(a) ==
    /\ Positive(a.home_value)
    /\ ~Negative(a.deposit)
    /\ FLt(a.deposit, a.home_value)
    /\ ~Negative(a.interest_rate)
    /\ a.loan_term >= 1
    /\ a.loan_term <= 50

\* The k-th rule of the validator, in the order of the specification
RuleViolated(k, a) ==
    CASE k = 1 -> ~Positive(a.home_value)
      [] k = 2 -> Negative(a.deposit)
      [] k = 3 -> ~FLt(a.deposit, a.home_value)
      [] k = 4 -> Negative(a.interest_rate)
      [] k = 5 -> a.loan_term < 1
      [] k = 6 -> a.loan_term > 50

RuleMessage(k) ==
    CASE k = 1 -> "Home value must be greater than zero."
      [] k = 2 -> "Deposit cannot be negative."
      [] k = 3 -> "Deposit must be less than home value."
      [] k = 4 -> "Interest rate cannot be negative."
      [] k = 5 -> "Loan term must be at least 1 year."
      [] k = 6 -> "Loan term cannot exceed 50 years."

ViolatedRules(a) == {k \in 1..6 : RuleViolated(k, a)}

Earliest(S) == CHOOSE k \in S : \A j \in S : k <= j

ExpectedValidation(V) == IF V = {} THEN None ELSE RuleMessage(Earliest(V))

\* C1: whenever validate_inputs has returned, it returned the message of the
\* first violated rule in the order home_value <= 0, deposit < 0,
\* deposit >= home_value, interest_rate < 0, loan_term < 1, loan_term > 50,
\* and None if and only if no rule is violated.
C1_FirstViolatedRuleReported ==
    validation_error # NotCalled =>
        validation_error = ExpectedValidation(ViolatedRules(args))

\* validate_inputs has rejected deposit == home_value with the deposit
\* message although the rate and the term rules are violated too
C1_Witness ==
    /\ validation_error = "Deposit must be less than home value."
    /\ args.deposit = args.home_value
    /\ Negative(args.interest_rate)
    /\ args.loan_term < 1

\* The schedule of a calculation has been returned to its caller
ScheduleReturned == pc = "done" /\ results # Absent

\* C2: for every valid input the last entry of the schedule returned has
\* remaining_balance exactly 0.
C2_FinalBalanceZero ==
    (caller # "schedule" /\ ScheduleReturned /\ ValidInput(args)) =>
        entries[Len(entries)].remaining_balance = Zero

\* calculate_mortgage has been called on the instance and has returned or raised
CalculateMortgageCalled ==
    /\ inputs # Absent
    /\ pc \in {"calculated", "loop", "done"}
    /\ caller = "main" => validation_error = None

LoanAmountError ==
    [type |-> "ValueError",
     msg |-> "Loan amount must be positive. Ensure home value is greater than deposit."]

C4_OneEntryPerPeriod ==
    (caller # "schedule" /\ results # Absent) =>
        /\ \A k \in 1..Len(entries) : entries[k].month = k
        /\ Len(entries) <= inputs.loan_term_years * 12
        /\ pc = "done" => Len(entries) = inputs.loan_term_years * 12

\* A schedule of 60 entries has been returned
C4_Witness ==
    /\ caller # "schedule" /\ ScheduleReturned
    /\ inputs.loan_term_years = 5
    /\ Len(entries) = 60
    /\ entries[60].month = 60

\* The balance before the k-th entry
BalanceBefore(k) ==
    IF k = 1 THEN results.loan_amount ELSE entries[k - 1].remaining_balance

\* C5: for every valid input remaining_balance never increases from one
\* entry to the next, and the first entry's balance is at most the loan
\* amount: of the entry just appended at every step of the loop, and of
\* every entry of the schedule returned.
C5_BalanceNonIncreasing ==
    (caller # "schedule" /\ results # Absent /\ ValidInput(args)) =>
        /\ entries # <<>> =>
               FLe(entries[Len(entries)].remaining_balance,
                   BalanceBefore(Len(entries)))
        /\ pc = "done" =>
               \A k \in 1..Len(entries) :
                   FLe(entries[k].remaining_balance, BalanceBefore(k))

ZeroOrAtLeastEpsilon(balance) ==
    balance = Zero \/ FLe(BALANCE_EPSILON, balance)

ROUNDOFF_TOLERANCE == [m |-> 2^(Prec - 1), e |-> (2 - Prec) - (Prec - 1)]

\* C7: for an instance with interest_rate == 0 and a positive loan amount,
\* calculate_mortgage returns monthly_payment == loan_amount /
\* (loan_term_years * 12), monthly_interest_rate == 0 and a total_interest
\* that is 0 within four units of roundoff of the loan amount, and every
\* schedule entry has interest == 0 and principal == monthly_payment.
C7_ZeroRateStraightLine ==
    (caller # "schedule" /\ CalculateMortgageCalled
        /\ inputs.interest_rate = Zero
        /\ FLt(inputs.deposit, inputs.home_value)) =>
        /\ results # Absent
        /\ results.monthly_payment =
               FDiv(FSub(inputs.home_value, inputs.deposit),
                    FromInt(inputs.loan_term_years * 12))
        /\ results.monthly_interest_rate = Zero
        /\ FLe(FAbs(results.total_interest),
               FMul(ROUNDOFF_TOLERANCE, results.loan_amount))
        /\ \A k \in 1..Len(entries) :
               /\ entries[k].interest = Zero
               /\ entries[k].principal = results.monthly_payment

\* The schedule of an interest-free loan of 11 over 5 years has been returned
C7_Witness ==
    /\ caller # "schedule" /\ ScheduleReturned
    /\ inputs.interest_rate = Zero
    /\ results.loan_amount = FromInt(11)
    /\ Len(entries) = 60
    /\ entries[60].principal = results.monthly_payment

\* The MortgageInputs constructor has been called
ConstructorCalled ==
    \/ caller = "api" /\ (inputs # Absent \/ raised # Absent)
    \/ caller = "main" /\ pc # "start"

\* The k-th check of the constructor, in the order of the specification
CheckViolated(k, a) ==
    CASE k = 1 -> Negative(a.home_value)
      [] k = 2 -> Negative(a.deposit)
      [] k = 3 -> FLt(a.home_value, a.deposit)
      [] k = 4 -> Negative(a.interest_rate)
      [] k = 5 -> a.loan_term < 1

CheckMessage(k) ==
    CASE k = 1 -> "Home value must be non-negative"
      [] k = 2 -> "Deposit must be non-negative"
      [] k = 3 -> "Deposit cannot exceed home value"
      [] k = 4 -> "Interest rate must be non-negative"
      [] k = 5 -> "Loan term must be at least 1 year"

ViolatedChecks(a) == {k \in 1..5 : CheckViolated(k, a)}

ConstructionFailedWith(msg) ==
    /\ inputs = Absent
    /\ caller = "api" => raised = [type |-> "ValueError", msg |-> msg]
    /\ caller = "main" => shown = <<"Invalid input: " \o msg>>

\* C8: constructing MortgageInputs fails with the ValueError of the first
\* violated check, in the order home_value < 0, deposit < 0,
\* deposit > home_value, interest_rate < 0, loan_term_years < 1, and produces
\* no instance; every constructed instance has 0 <= deposit <= home_value,
\* interest_rate >= 0 and loan_term_years >= 1.
C8_ConstructorRejects ==
    /\ (ConstructorCalled /\ ViolatedChecks(args) # {}) =>
           ConstructionFailedWith(CheckMessage(Earliest(ViolatedChecks(args))))
    /\ inputs # Absent =>
           /\ ~FLt(inputs.home_value, inputs.deposit)
           /\ ~Negative(inputs.deposit)
           /\ ~Negative(inputs.interest_rate)
           /\ inputs.loan_term_years >= 1

\* The constructor has raised for a deposit above the home value, the first
\* of three violated checks
C8_Witness ==
    /\ caller = "api"
    /\ raised = [type |-> "ValueError", msg |-> "Deposit cannot exceed home value"]
    /\ FLt(args.home_value, args.deposit)
    /\ Negative(args.interest_rate)
    /\ args.loan_term < 1
    /\ inputs = Absent

\* C9: every MortgageInputs instance that exists has field values the
\* validator accepts (home_value > 0, 0 <= deposit < home_value,
\* interest_rate >= 0, 1 <= loan_term_years <= 50), and it was constructed
\* only after validation had succeeded for those values.
C9_InstanceImpliesValidated ==
    inputs # Absent => (ValidInput(args) /\ validation_error = None)

\* main() has passed the instance to the calculator
MainCalculates ==
    caller = "main" /\ (pc \in {"calculate", "loop"} \/ results # Absent \/ rendered)

\* C9 as amended: every MortgageInputs instance that exists satisfies the
\* constructor's own checks (home_value >= 0, 0 <= deposit <= home_value,
\* interest_rate >= 0, loan_term_years >= 1); main() constructs the instance
\* first and validates it afterwards, and passes it to the calculator only
\* when validate_inputs has accepted its values (home_value > 0,
\* 0 <= deposit < home_value, interest_rate >= 0, 1 <= loan_term_years <= 50).
C9_InstanceCheckedThenValidated ==
    /\ inputs # Absent =>
           /\ ~Negative(inputs.home_value)
           /\ ~Negative(inputs.deposit)
           /\ FLe(inputs.deposit, inputs.home_value)
           /\ ~Negative(inputs.interest_rate)
           /\ inputs.loan_term_years >= 1
    /\ (caller = "main" /\ validation_error # NotCalled) => inputs # Absent
    /\ MainCalculates => (validation_error = None /\ ValidInput(args))

\* main() holds an instance with deposit == home_value, which validate_inputs
\* then refused
C9_Witness ==
    /\ caller = "main"
    /\ inputs # Absent
    /\ inputs.deposit = inputs.home_value
    /\ validation_error = "Deposit must be less than home value."
    /\ shown = <<"Deposit must be less than home value.">>
    /\ results = Absent

\* acc + es[lo].principal + ... + es[hi].principal, added from left to right
\* as sum() does.  Long ranges are split in two, and acc is compared before
\* the recursion so that it is a value by then: both bound the depth of the
\* evaluation.
RECURSIVE SumPrincipal(_, _, _, _)
SumPrincipal(acc, es, lo, hi) ==
    IF lo > hi \/ acc = Absent THEN acc
    ELSE IF lo = hi THEN FAdd(acc, es[lo].principal)
    ELSE SumPrincipal(SumPrincipal(acc, es, lo, (lo + hi) \div 2),
                      es, (lo + hi) \div 2 + 1, hi)

\* The relative tolerance 1e-6
RELATIVE_TOLERANCE == FDiv(One, FromInt(1000000))

\* C10: for every valid input the principal fields of the schedule returned
\* sum to the loan amount within a relative tolerance of 1e-6.
C10_PrincipalSumsToLoan ==
    (caller # "schedule" /\ ScheduleReturned /\ ValidInput(args)) =>
        FLe(FAbs(FSub(SumPrincipal(Zero, entries, 1, Len(entries)),
                      results.loan_amount)),
            FMul(RELATIVE_TOLERANCE, results.loan_amount))

\* C11: every MortgageResults calculate_mortgage returns has loan_amount ==
\* home_value - deposit, number_of_payments == loan_term_years * 12,
\* total_payments == monthly_payment * number_of_payments and total_interest
\* == total_payments - loan_amount; and whenever interest_rate > 0,
\* monthly_payment > 0, total_payments > loan_amount and total_interest > 0.
C11_TotalsAndPositiveInterest ==
    (caller # "schedule" /\ results # Absent) =>
        /\ results.loan_amount = FSub(inputs.home_value, inputs.deposit)
        /\ results.number_of_payments = inputs.loan_term_years * 12
        /\ results.total_payments =
               FMul(results.monthly_payment, FromInt(results.number_of_payments))
        /\ results.total_interest =
               FSub(results.total_payments, results.loan_amount)
        /\ Positive(inputs.interest_rate) =>
               /\ Positive(results.monthly_payment)
               /\ FLt(results.loan_amount, results.total_payments)
               /\ Positive(results.total_interest)

\* The exception calculate_mortgage raises for the entered values, or Absent
CalculationFailure(a) ==
    calculate_mortgage(MortgageInputs(a.home_value, a.deposit, a.interest_rate,
                                      a.loan_term)).raised

\* What main() has to show for an exception of the calculation
CalculationMessage(exc) ==
    CASE exc.type = "ValueError" ->
             "Invalid input: Loan amount must be positive. Ensure home value is greater than deposit."
      [] exc.type = "ZeroDivisionError" ->
             "Calculation error: Division by zero occurred"
      [] exc.type = "OverflowError" ->
             "An unexpected error occurred: (34, 'Numerical result out of range')"

\* The failure of a run of main() on the entered values: the message to
\* show, or None when construction, validation and calculation all succeed
MainFailure(a) ==
    IF ViolatedChecks(a) # {}
    THEN "Invalid input: " \o CheckMessage(Earliest(ViolatedChecks(a)))
    ELSE IF ViolatedRules(a) # {} THEN RuleMessage(Earliest(ViolatedRules(a)))
    ELSE IF CalculationFailure(a) # Absent
    THEN CalculationMessage(CalculationFailure(a))
    ELSE None

\* C12: in every run of main() in which validate_inputs returns a message or
\* the construction or the calculation raises, main() ends having called
\* show_error with the message of that failure, and never renders results;
\* results are rendered only in runs that showed no error.
C12_NoErrorSwallowed ==
    caller = "main" =>
        /\ (pc = "done" /\ MainFailure(args) # None) =>
               (shown = <<MainFailure(args)>> /\ ~rendered)
        /\ MainFailure(args) # None => ~rendered
        /\ rendered => shown = <<>>

\* main() has shown the error of a calculation that raised ZeroDivisionError
C12_Witness ==
    /\ caller = "main" /\ pc = "done"
    /\ validation_error = None
    /\ CalculationFailure(args) # Absent
    /\ shown = <<"Calculation error: Division by zero occurred">>
    /\ ~rendered

\* The entries of the schedule that carry year y
EntriesOfYear(y) == {k \in 1..Len(entries) : entries[k].year = y}

\* C13: for every schedule main() renders from valid inputs and every year y
\* in 1..loan_term_years, exactly the 12 entries with months 12(y-1)+1..12y
\* carry year == y, and the minimum remaining balance of the year, which
\* aggregate_by_year reports, equals the remaining_balance of entry 12y.
C13_YearEndBalance ==
    (caller = "main" /\ rendered /\ ValidInput(args)) =>
        /\ DOMAIN chart = 1..args.loan_term
        /\ \A y \in 1..args.loan_term :
               /\ EntriesOfYear(y) = (12 * (y - 1) + 1)..(12 * y)
               /\ chart[y] = entries[12 * y].remaining_balance

-----------------------------------------------------------------------------
(* Two callers of calculate_all, interleaved step by step.  Each caller's  *)
(* invocation has its own frame: pc, inputs, results, remaining_balance,   *)
(* month, entries and raised are functions of the caller here.             *)

\* Calculations a caller makes one after the other
MaxCalculations == 2

Callers == {1, 2}

ConcurrentInputs ==
    {MortgageInputs(FromInt(12), One, RATE_ORDINARY, 1),
     MortgageInputs(One, Zero, Zero, 1),
     MortgageInputs(One, Zero, RATE_EXTREME, 1),
     MortgageInputs(One, One, RATE_ORDINARY, 1)}

\* remaining_balance as one variable shared by the invocations in progress
SharedBalance(c) == remaining_balance[CHOOSE d \in Callers : pc[d] = "loop"]

\* remaining_balance is a local of the invocation of generate_payment_schedule
LocalBalance(c) == remaining_balance[c]

ConcurrentInit ==
    /\ caller = "concurrent"
    /\ args = [c \in Callers |-> 1]
    /\ inputs \in [Callers -> ConcurrentInputs]
    /\ pc = [c \in Callers |-> "start"]
    /\ results = [c \in Callers |-> Absent]
    /\ remaining_balance = [c \in Callers |-> Absent]
    /\ month = [c \in Callers |-> 0]
    /\ entries = [c \in Callers |-> <<>>]
    /\ raised = [c \in Callers |-> Absent]
    /\ validation_error = NotCalled
    /\ shown = <<>>
    /\ rendered = FALSE
    /\ chart = Absent

\* calculate_all(inputs) by caller c, up to the loop of the schedule
CallCalculateAll(c) ==
    /\ pc[c] = "start"
    /\ \E r \in {calculate_mortgage(inputs[c])} :
           IF r.raised # Absent
           THEN /\ raised' = [raised EXCEPT ![c] = r.raised]
                /\ pc' = [pc EXCEPT ![c] = "done"]
                /\ UNCHANGED <<results, entries, remaining_balance, month>>
           ELSE /\ results' = [results EXCEPT ![c] = r.value]
                /\ entries' = [entries EXCEPT ![c] = <<>>]
                /\ remaining_balance' =
                       [remaining_balance EXCEPT ![c] = r.value.loan_amount]
                /\ month' = [month EXCEPT ![c] = 1]
                /\ pc' = [pc EXCEPT ![c] = "loop"]
                /\ UNCHANGED raised
    /\ UNCHANGED <<caller, args, inputs, validation_error, shown, rendered, chart>>

\* One iteration of the loop in caller c's invocation
StepOf(c) ==
    /\ pc[c] = "loop" /\ LoopContinues(month[c], results[c])
    /\ \E entry \in {ScheduleIteration(results[c], LocalBalance(c), month[c])} :
           /\ entries' = [entries EXCEPT ![c] = Append(@, entry)]
           /\ remaining_balance' =
                  [remaining_balance EXCEPT ![c] = entry.remaining_balance]
    /\ month' = [month EXCEPT ![c] = @ + 1]
    /\ UNCHANGED <<caller, args, pc, inputs, validation_error, results, raised,
                   shown, rendered, chart>>

\* calculate_all returns (results, schedule) to caller c
ReturnTo(c) ==
    /\ pc[c] = "loop" /\ ~LoopContinues(month[c], results[c])
    /\ pc' = [pc EXCEPT ![c] = "done"]
    /\ UNCHANGED <<caller, args, inputs, validation_error, results,
                   remaining_balance, month, entries, raised, shown, rendered,
                   chart>>

\* Caller c starts its next calculation, on any inputs; args counts them
CallAgain(c) ==
    /\ pc[c] = "done" /\ args[c] < MaxCalculations
    /\ args' = [args EXCEPT ![c] = @ + 1]
    /\ \E i \in ConcurrentInputs : inputs' = [inputs EXCEPT ![c] = i]
    /\ pc' = [pc EXCEPT ![c] = "start"]
    /\ results' = [results EXCEPT ![c] = Absent]
    /\ raised' = [raised EXCEPT ![c] = Absent]
    /\ entries' = [entries EXCEPT ![c] = <<>>]
    /\ UNCHANGED <<caller, validation_error, remaining_balance, month, shown,
                   rendered, chart>>

ConcurrentNext ==
    \E c \in Callers :
        \/ CallCalculateAll(c)
        \/ StepOf(c)
        \/ ReturnTo(c)
        \/ CallAgain(c)

SpecConcurrent == ConcurrentInit /\ [][ConcurrentNext]_vars

\* generate_payment_schedule(results) run alone, up to n payment periods
RECURSIVE ScheduleAlone(_, _, _, _)
ExtendAlone(res, es, entry, n) ==
    IF entry = Absent THEN es
    ELSE ScheduleAlone(res, Append(es, entry), entry.remaining_balance, n)

ScheduleAlone(res, es, balance, n) ==
    IF Len(es) >= n \/ ~LoopContinues(Len(es) + 1, res)
    THEN es
    ELSE ExtendAlone(res, es, ScheduleIteration(res, balance, Len(es) + 1), n)

\* calculate_all after calculate_mortgage gave r, as far as month_
AloneAfter(r, month_) ==
    IF r.raised # Absent
    THEN [raised |-> r.raised, results |-> Absent, entries |-> <<>>]
    ELSE [raised |-> Absent, results |-> r.value,
          entries |-> ScheduleAlone(r.value, <<>>, r.value.loan_amount,
                                    month_ - 1)]

\* What calculate_all(inp) gives a caller that runs alone, as far as month_
CalculateAllAlone(inp, month_) == AloneAfter(calculate_mortgage(inp), month_)

\* Caller c holds what running alone as far as month_ gives
HoldsAlone(c, alone) ==
    /\ raised[c] = alone.raised
    /\ results[c] = alone.results
    /\ entries[c] = alone.entries

\* C14: every caller of calculate_all, whatever it and the other caller
\* calculated before and however the two invocations interleave, holds
\* exactly the results and the schedule entries that calculate_all gives
\* for its inputs when run alone.
C14_CallersIndependent ==
    \A c \in Callers :
        /\ pc[c] = "loop" => HoldsAlone(c, CalculateAllAlone(inputs[c], month[c]))
        /\ pc[c] = "done" => HoldsAlone(c, CalculateAllAlone(inputs[c], 13))

\* Both callers are inside the loop, on different inputs, after caller 1
\* has completed an earlier calculation
C14_Witness ==
    /\ caller = "concurrent"
    /\ pc[1] = "loop" /\ pc[2] = "loop"
    /\ month[1] > 2 /\ month[2] > 2
    /\ inputs[1] # inputs[2]
    /\ results[1].loan_amount # results[2].loan_amount
    /\ args[1] = 2

\* validate_inputs accepts the field values of the instance
InstanceValidated ==
    validate_inputs(inputs.home_value, inputs.deposit, inputs.interest_rate,
                    inputs.loan_term_years) = None

\* C15: in main() the steps occur in the order validate, compute, expand,
\* render.  The step that invokes calculate_mortgage starts where
\* validate_inputs has returned None for the field values of the instance
\* passed on; results appear only by that step; an entry is added to the
\* schedule only after calculate_mortgage returned these results normally;
\* rendering happens only when the results and the whole schedule are there;
\* and a step in which validate_inputs returns a message ends the run with
\* no results, no entries and nothing rendered.
C15_ValidateComputeExpandRender ==
    [][caller = "main" =>
          /\ pc = "calculate" =>
                 /\ validation_error = None
                 /\ InstanceValidated
                 /\ results = Absent
          /\ results' # results =>
                 /\ pc = "calculate"
                 /\ results' = calculate_mortgage(inputs).value
          /\ entries' # entries =>
                 /\ pc = "loop"
                 /\ validation_error = None
                 /\ results' = results
                 /\ results = calculate_mortgage(inputs).value
          /\ (rendered' /\ ~rendered) =>
                 /\ pc = "loop"
                 /\ results = calculate_mortgage(inputs).value
                 /\ Len(entries) = results.number_of_payments
                 /\ entries' = entries
          /\ validation_error' \notin {None, NotCalled} =>
                 /\ pc' = "done"
                 /\ results' = Absent
                 /\ entries' = <<>>
                 /\ ~rendered'
    ]_vars

\* main() has validated, computed, expanded the whole schedule and rendered
C15_Witness ==
    /\ caller = "main" /\ pc = "done"
    /\ validation_error = None
    /\ results # Absent
    /\ Len(entries) = results.number_of_payments
    /\ rendered

\* validate_inputs accepts the raw values
Validated(a) ==
    validate_inputs(a.home_value, a.deposit, a.interest_rate, a.loan_term) = None

\* C16: the validator, the constructor and the guard of the engine are
\* consistent.  For values validate_inputs accepts, the constructor does not
\* raise, calculate_mortgage does not raise the loan-amount ValueError, and
\* the results it returns have loan_amount > 0 and
\* 12 <= number_of_payments <= 600.  The constructor alone admits more: an
\* instance whose values the validator refuses has home_value == 0,
\* deposit == home_value or loan_term_years > 50, and the guard of the engine
\* fires exactly on the instances with deposit == home_value.
C16_GuardsConsistent ==
    caller \in {"api", "main"} =>
        /\ Validated(args) =>
               /\ ConstructorCalled => inputs # Absent
               /\ raised # LoanAmountError
               /\ shown # <<"Invalid input: " \o LoanAmountError.msg>>
               /\ results # Absent =>
                      /\ Positive(results.loan_amount)
                      /\ results.number_of_payments >= 12
                      /\ results.number_of_payments <= 600
        /\ (inputs # Absent /\ ~Validated(args)) =>
               \/ inputs.home_value = Zero
               \/ inputs.deposit = inputs.home_value
               \/ inputs.loan_term_years > 50
        /\ (caller = "api" /\ CalculateMortgageCalled) =>
               (raised = LoanAmountError <=> inputs.deposit = inputs.home_value)

\* calculate_mortgage has returned results for values the validator accepts,
\* at the longest validated term
C16_Witness ==
    /\ caller = "api" /\ pc = "calculated"
    /\ Validated(args)
    /\ inputs # Absent /\ raised = Absent
    /\ results # Absent
    /\ results.number_of_payments = 600

\* The guard of the engine has fired on an instance with home_value == 0
C16_GuardReached ==
    /\ caller = "api" /\ CalculateMortgageCalled
    /\ inputs.home_value = Zero
    /\ raised = LoanAmountError

\* The constructor has admitted a term above 50 years
C16_LongTermAdmitted ==
    /\ caller = "api" /\ inputs # Absent
    /\ ~Validated(args)
    /\ FLt(inputs.deposit, inputs.home_value)
    /\ inputs.loan_term_years > 50

\* What the constructor answers to the raw values: a message, or None
ConstructorAnswer(a) ==
    MortgageInputs_post_init(a.home_value, a.deposit, a.interest_rate, a.loan_term)

\* C17: main() constructs MortgageInputs before it validates.  For entered
\* values the constructor rejects, validate_inputs is never invoked, at no
\* point of the run, and the run ends having shown the constructor's message
\* only: 'Invalid input: Deposit cannot exceed home value' when the deposit
\* exceeds the home value.  The validator's 'Deposit must be less than home
\* value.' is returned in main() only for deposit == home_value with
\* home_value > 0.
C17_ConstructorBeforeValidator ==
    caller = "main" =>
        /\ ConstructorAnswer(args) # None =>
               /\ validation_error = NotCalled
               /\ inputs = Absent
               /\ pc \in {"start", "done"}
               /\ pc = "done" =>
                      shown = <<"Invalid input: " \o ConstructorAnswer(args)>>
        /\ (FLt(args.home_value, args.deposit) /\ pc = "done") =>
               shown = <<"Invalid input: Deposit cannot exceed home value">>
        /\ validation_error # NotCalled => inputs # Absent
        /\ (\/ validation_error = "Deposit must be less than home value."
            \/ shown = <<"Deposit must be less than home value.">>) =>
               /\ args.deposit = args.home_value
               /\ Positive(args.home_value)

\* main() has ended on the constructor's error for a deposit above the home
\* value, without validating
C17_Witness ==
    /\ caller = "main" /\ pc = "done"
    /\ FLt(args.home_value, args.deposit)
    /\ Positive(args.home_value)
    /\ validation_error = NotCalled
    /\ shown = <<"Invalid input: Deposit cannot exceed home value">>

\* main() has shown the validator's message about the deposit
C17_ValidatorMessageShown ==
    /\ caller = "main" /\ pc = "done"
    /\ shown = <<"Deposit must be less than home value.">>

=============================================================================
